---- MODULE Spec2Model ----
(***************************************************************************)
(* vite-plugin-svg-sprite (src/src/index.ts): the sprite assembly pipeline *)
(* generateSvgSprite, the symbol cache svgCache, the current sprite and    *)
(* the two change handlers (dev server, build watch), for both revisions   *)
(* of the plugin held in the source file.                                  *)
(*                                                                         *)
(* JavaScript runs one callback at a time, so every action below is one    *)
(* run-to-completion callback: a hook call, a watcher event, a timer       *)
(* expiry, or the continuation of one awaited fs.promises.readFile.        *)
(***************************************************************************)
EXTENDS Integers, Sequences, FiniteSets, TLC

\* Bounds of the exploration.
MaxEvents == 2
MaxInFlight == 2
MaxConfigRuns == 2

VARIABLES
  rev,            \* which revision of the plugin runs: 1 (lines 1-395) or 2 (lines 397-724)
  mode,           \* "serve": configureServer installed; "watch": build.watch watcher installed
  inject,         \* plugin option inject
  symbolId,       \* plugin option symbolId, the template of the symbol ids
  fileName,       \* plugin option fileName (filePath in revision 2), or NoFileName
  fs,             \* the icon files on disk: file -> content, or Absent
  svgCache,       \* Map<string, HTMLElement>: file -> cached symbol, or NoSym
  passes,         \* the generateSvgSprite calls in flight, oldest first; cur tells that
                  \* svgCache was not cleared since the call started
  svgSprite,      \* the current sprite (svgSprite / spriteDom)
  debounceTimer,  \* TRUE while the setTimeout of the dev change handler is pending
  phase,          \* "rejected": the plugin function threw; "boot": before the first
                  \* configResolved has returned; "up"; "failed"
  out,            \* what the reader hook that just ran (load, transformIndexHtml) returned
  last,           \* the generateSvgSprite call that ended in the callback that just ran
  nEvents,        \* number of watcher events so far
  nConfig,        \* number of configResolved calls so far
  quiet,          \* history: no file changed since the cache was last empty with no pass in flight
  chg,            \* history: how the files on disk differ from those the current sprite was built from
  hasGeneratedSprite,  \* generateBundle has written the artifact since the last configResolved
  artifacts,      \* the files under outDir/assetsDir: records [path, content], oldest first
  job             \* SpecCompile: one file given to the symbol compiler, and the symbol it gave

vars == <<rev, mode, inject, symbolId, fileName, fs, svgCache, passes, svgSprite, debounceTimer,
          phase, out, last, nEvents, nConfig, quiet, chg,
          hasGeneratedSprite, artifacts, job>>

----------------------------------------------------------------------------
(* Files, contents and the Symbol Compiler *)

\* The icon files that may exist, per include directory, in readdir order.
DirListing(dir) ==
  IF dir = "regular" THEN <<"regular/star.svg">>
  ELSE <<"solid/check.svg", "solid/close.svg">>

\* Plugin option include, in configured order.
dirs == <<"regular", "solid">>

\* path.parse(filePath) and path.basename(path.resolve(CWD, dir)).
PathParse(f) ==
  IF f = "regular/star.svg" THEN [dir |-> "regular", name |-> "star", ext |-> ".svg"]
  ELSE IF f = "solid/check.svg" THEN [dir |-> "solid", name |-> "check", ext |-> ".svg"]
  ELSE IF f = "solid/close.svg" THEN [dir |-> "solid", name |-> "close", ext |-> ".svg"]
  ELSE [dir |-> "solid", name |-> "notes", ext |-> ".md"]

AllFiles == {"regular/star.svg", "solid/check.svg", "solid/close.svg"}

\* The paths the watchers report: the icon files and one file that is no icon.
WatchedPaths == AllFiles \cup {"solid/notes.md"}

\* A faulty variant of EndsWithSvg: every path passes the test.
EndsWithSvg_Always(filePath) == PathParse(filePath).ext \in {".svg", ".md"}

\* filePath.endsWith('.svg')
EndsWithSvg(filePath) == PathParse(filePath).ext = ".svg"

Absent == "none"

\* File contents: what JSDOM.fragment(optimize(content)).querySelector('svg') finds.
\*   A  : <svg><path d="a"/></svg>
\*   Ai : <svg id="logo"><path d="a"/></svg>
\*   B  : <svg><path d="b"/></svg>
\*   X  : markup without an <svg> element
\*   V  : <svg viewBox="0 0 16 16" fill="none"><path d="a"/></svg>
\*   W  : <svg width="32" height="32" viewBox="0 0 16 16"><path d="b"/></svg>
\* id is the root's id attribute, attrs its other attributes in document order.
Markup(c) ==
  IF c = "A" THEN [svg |-> TRUE, id |-> <<>>, attrs |-> <<>>, inner |-> "path-a"]
  ELSE IF c = "Ai" THEN [svg |-> TRUE, id |-> <<"logo">>, attrs |-> <<>>, inner |-> "path-a"]
  ELSE IF c = "B" THEN [svg |-> TRUE, id |-> <<>>, attrs |-> <<>>, inner |-> "path-b"]
  ELSE IF c = "V" THEN [svg |-> TRUE, id |-> <<>>,
                        attrs |-> <<<<"viewBox", "0 0 16 16">>, <<"fill", "none">>>>,
                        inner |-> "path-a"]
  ELSE IF c = "W" THEN [svg |-> TRUE, id |-> <<>>,
                        attrs |-> <<<<"width", "32">>, <<"height", "32">>,
                                    <<"viewBox", "0 0 16 16">>>>,
                        inner |-> "path-b"]
  ELSE [svg |-> FALSE, id |-> <<>>, attrs |-> <<>>, inner |-> ""]

Contents == {"A", "Ai", "B", "X"}

\* The contents compiled one by one in SpecCompile.
CompileContents == {"A", "Ai", "B", "V", "W"}

DEFAULT_SYMBOL_ID == <<"[dir]", "-", "[name]">>

SVG_NS == "http://www.w3.org/2000/svg"

\* Plugin option attributes.
attributes == <<<<"id", "svg-sprite">>>>

NoSym == [id |-> <<>>, attrs |-> <<>>, inner |-> ""]

\* new Map() / svgCache.clear(): no file has an entry.
EmptyCache ==
  ("regular/star.svg" :> NoSym) @@ ("solid/check.svg" :> NoSym) @@ ("solid/close.svg" :> NoSym)

\* A faulty variant of Includes: every template passes the test.
Includes_Always(s, part) == Len(s) >= 0

\* String.prototype.includes
Includes(s, part) == \E i \in 1..Len(s) : s[i] = part

\* String.prototype.replace with a string pattern: the first occurrence only.
RECURSIVE ReplaceFirst(_, _, _)
ReplaceFirst(s, ph, val) ==
  IF s = <<>> THEN <<>>
  ELSE IF Head(s) = ph THEN <<val>> \o Tail(s)
  ELSE <<Head(s)>> \o ReplaceFirst(Tail(s), ph, val)

makeSymbolId(pattern, filePath) ==
  LET p == PathParse(filePath)
  IN ReplaceFirst(ReplaceFirst(pattern, "[dir]", p.dir), "[name]", p.name)

\* The body of the try block after the read: the symbol built from a content.
\* The source root's attributes are copied, then id is set from the template.
CompileOk(content) == content # Absent /\ Markup(content).svg

Compile(file, content) ==
  LET copied == [id |-> Markup(content).id, attrs |-> Markup(content).attrs,
                 inner |-> Markup(content).inner]
  IN [copied EXCEPT !.id = makeSymbolId(symbolId, file)]

----------------------------------------------------------------------------
(* Discovery *)

findSvgFiles(dir, disk) == SelectSeq(DirListing(dir), LAMBDA f: disk[f] # Absent)

RECURSIVE DiscoverFrom(_, _)
DiscoverFrom(ds, disk) ==
  IF ds = <<>> THEN <<>>
  ELSE findSvgFiles(Head(ds), disk) \o DiscoverFrom(Tail(ds), disk)

Discover(disk) == DiscoverFrom(dirs, disk)

----------------------------------------------------------------------------
(* The sprite document and its hash *)

\* dom.serialize(): the root element with its attributes and its symbol children;
\* a document whose root element was moved elsewhere serializes to nothing.
RECURSIVE SymbolsOf(_)
SymbolsOf(kids) ==
  IF kids = <<>> THEN <<>> ELSE <<Head(kids).sym>> \o SymbolsOf(Tail(kids))

Serialize(root, kids) ==
  IF root
  THEN [svg |-> <<<<"xmlns", SVG_NS>>>> \o attributes, symbols |-> SymbolsOf(kids)]
  ELSE [svg |-> <<>>, symbols |-> <<>>]

NoDoc == [svg |-> <<>>, symbols |-> <<>>]
NoHash == <<>>

InnerCode(inner) == IF inner = "path-a" THEN 1 ELSE IF inner = "path-b" THEN 2 ELSE 0
IdCode(id) == IF id = makeSymbolId(symbolId, "regular/star.svg") THEN 1
              ELSE IF id = makeSymbolId(symbolId, "solid/check.svg") THEN 2
              ELSE IF id = makeSymbolId(symbolId, "solid/close.svg") THEN 3
              ELSE 4

\* The digest of the serialized text, folded over the text left to right.
RECURSIVE Digest(_, _)
Digest(symbols, h) ==
  IF symbols = <<>> THEN h
  ELSE Digest(Tail(symbols),
              (h * 31 + IdCode(Head(symbols).id) * 3 + InnerCode(Head(symbols).inner)
                 + 11 * Len(Head(symbols).attrs)) % 1000003)

\* A faulty variant of getHash: a digest of the size of the text only.
getHash_SizeOnly(content) == <<Len(content.svg) + Len(content.symbols)>>

getHash(content) == <<Digest(content.symbols, Len(content.svg) + 1)>>

----------------------------------------------------------------------------
(* DOM nodes.  A symbol element is one node: appendChild moves it, removing *)
(* it from the parent it had.  A child is recorded as [file, sym, live],    *)
(* live telling that it is the very node svgCache holds for file, which is  *)
(* the only way the code reaches a node again.                              *)

Detach(kids, file) == SelectSeq(kids, LAMBDA n: ~(n.live /\ n.file = file))

\* The cache lets go of the nodes it held for files: they stay where they are.
RECURSIVE Forget(_, _)
Forget(kids, files) ==
  IF kids = <<>> THEN <<>>
  ELSE <<IF Head(kids).file \in files THEN [Head(kids) EXCEPT !.live = FALSE]
         ELSE Head(kids)>> \o Forget(Tail(kids), files)

RECURSIVE ForgetInPasses(_, _)
ForgetInPasses(ps, files) ==
  IF ps = <<>> THEN <<>>
  ELSE <<[Head(ps) EXCEPT !.kids = Forget(@, files)]>> \o ForgetInPasses(Tail(ps), files)

RECURSIVE DetachInPasses(_, _)
DetachInPasses(ps, file) ==
  IF ps = <<>> THEN <<>>
  ELSE <<[Head(ps) EXCEPT !.kids = Detach(@, file)]>> \o DetachInPasses(Tail(ps), file)


\* chg: "fresh" when the current sprite was built from the files as they are now;
\* "same" / "differs" / "broken" when since then exactly one file got another
\* content, which compiles to the same symbol, to another symbol, or not at all;
\* "stale" otherwise.
Fresh == "fresh"
Stale == "stale"

NoLast == [kind |-> "none", ok |-> FALSE, files |-> <<>>, errors |-> {},
           warnings |-> {}, notified |-> <<>>, order |-> <<>>,
           pre |-> [quiet |-> TRUE, chg |-> Stale, defined |-> FALSE],
           docSame |-> TRUE, hashSame |-> TRUE]

\* at: where in the body transformIndexHtml inserted a node.
\* event: "ignored" when the callback that just ran was a watcher callback that
\* returned at once.
\* write: the writeSpriteToFile call of the callback that just ran, if it made one.
NoOut == [reader |-> "none", status |-> "", doc |-> NoDoc, hash |-> NoHash,
          event |-> "none", write |-> <<>>, at |-> ""]

\* The mutable state the pipeline works on, threaded through one callback.
World == [cache |-> svgCache, passes |-> passes, sprite |-> svgSprite,
          last |-> NoLast, out |-> NoOut, phase |-> phase, quiet |-> quiet, chg |-> chg,
          mod |-> FALSE, path |-> "", artifacts |-> artifacts]

\* server.moduleGraph.getModuleById(RESOLVED_VIRTUAL_MODULE_ID): the module graph
\* is Vite's; mod tells whether it holds the virtual module when the call is made.
WithModule(w, mod) == [w EXCEPT !.mod = mod]

\* The watcher callback's argument filePath.
WithPath(w, filePath) == [w EXCEPT !.path = filePath]

\* svgCache.set(file, symbol)
CacheSet(w, file, sym) ==
  [w EXCEPT !.cache[file] = sym,
            !.sprite.kids = Forget(@, {file}),
            !.passes = ForgetInPasses(@, {file})]

\* The passes in flight were started on a cache that has been cleared since.
RECURSIVE Outdate(_)
Outdate(ps) ==
  IF ps = <<>> THEN <<>> ELSE <<[Head(ps) EXCEPT !.cur = FALSE]>> \o Outdate(Tail(ps))

\* svgCache.clear()
CacheClear(w) ==
  [w EXCEPT !.cache = EmptyCache,
            !.sprite.kids = Forget(@, AllFiles),
            !.passes = Outdate(ForgetInPasses(@, AllFiles)),
            !.quiet = IF w.passes = <<>> THEN TRUE ELSE @]

\* sprite.appendChild(svgCache.get(file)) on the document of pass k.
AppendChild(w, k, file) ==
  LET node == [file |-> file, sym |-> w.cache[file], live |-> TRUE]
      moved == DetachInPasses(w.passes, file)
  IN [w EXCEPT !.sprite.kids = Detach(@, file),
               !.passes = [moved EXCEPT ![k].kids = Append(@, node)]]

RemoveAt(s, k) == SubSeq(s, 1, k - 1) \o SubSeq(s, k + 1, Len(s))

RECURSIVE FilesOf(_)
FilesOf(kids) ==
  IF kids = <<>> THEN <<>> ELSE <<Head(kids).file>> \o FilesOf(Tail(kids))

\* files.map(async file => ...) up to the first await of each callback.
RECURSIVE StartTasks(_, _)
StartTasks(files, cache) ==
  IF files = <<>> THEN <<>>
  ELSE <<IF cache[Head(files)] # NoSym THEN "hit" ELSE "wait">>
       \o StartTasks(Tail(files), cache)

TaskEnded(t) == t \in {"hit", "ok", "err"}

\* console.warn calls of the callback that ran pass p.
WarningsOf(p) == IF p.kind = "watch" THEN {"entry-not-found"} ELSE {}

\* What the callback that ran pass p does once generateSvgSprite has returned:
\* handleDevChange invalidates the virtual module and sends a full reload.
NotifiedBy(p, mod) ==
  IF p.kind = "dev" /\ mod THEN <<"invalidateModule", "full-reload">> ELSE <<>>

\* svgSprite = new SvgSprite(dom)  /  spriteDom = dom
NewSprite(kids) ==
  IF rev = 1
  THEN [defined |-> TRUE, content |-> Serialize(TRUE, kids),
        hash |-> getHash(Serialize(TRUE, kids)), root |-> TRUE, kids |-> kids]
  ELSE [defined |-> TRUE, content |-> NoDoc, hash |-> NoHash, root |-> TRUE, kids |-> kids]

\* What load() and the dev middleware send: svgSprite.content / spriteDom.serialize().
ContentOf(sprite) == IF rev = 1 THEN sprite.content ELSE Serialize(sprite.root, sprite.kids)

ErrorsOf(p) == {p.files[i] : i \in {j \in 1..Len(p.files) : p.tasks[j] = "err"}}

NoFileName == <<>>

\* resolveFileName(pattern, hash) joined to the out directory: the name with its
\* [hash] placeholder, and the hash that takes its place.  Revision 2 joins the
\* option to the directory as it is.
ResolvePath(pattern, sprite) ==
  [name |-> pattern,
   hash |-> IF rev = 1 /\ Includes(pattern, "[hash]") THEN sprite.hash ELSE NoHash]

\* fs.writeFileSync(filePath, fileContent)
RECURSIVE WriteFile(_, _, _)
WriteFile(files, filePath, fileContent) ==
  IF files = <<>> THEN <<[path |-> filePath, content |-> fileContent]>>
  ELSE IF Head(files).path = filePath
       THEN <<[path |-> filePath, content |-> fileContent]>> \o Tail(files)
       ELSE <<Head(files)>> \o WriteFile(Tail(files), filePath, fileContent)

\* fs.existsSync(filePath) and fs.readFileSync(filePath) === fileContent
ExistsWith(files, filePath, fileContent) ==
  \E i \in 1..Len(files) : files[i].path = filePath /\ files[i].content = fileContent

\* A faulty variant of writeSpriteToFile: the file is written without a look at
\* what is there.
writeSpriteToFile_Always(w, pattern, sprite) ==
  LET filePath == ResolvePath(pattern, sprite)
  IN [w EXCEPT !.artifacts = WriteFile(@, filePath, ContentOf(sprite)),
               !.out.write = <<[path |-> filePath, written |-> TRUE]>>]

\* writeSpriteToFile(dir, pattern, sprite), dir being outDir/assetsDir.
writeSpriteToFile(w, pattern, sprite) ==
  LET filePath == ResolvePath(pattern, sprite)
      fileContent == ContentOf(sprite)
  IN IF ExistsWith(w.artifacts, filePath, fileContent)
     THEN [w EXCEPT !.out.write = <<[path |-> filePath, written |-> FALSE]>>]
     ELSE [w EXCEPT !.artifacts = WriteFile(@, filePath, fileContent),
                    !.out.write = <<[path |-> filePath, written |-> TRUE]>>]

\* The watcher callback after await generateSvgSprite(): revision 1 passes its
\* argument filePath as the pattern, revision 2 the option, when it is set.
WriteAfterRebuild(w, p) ==
  IF p.kind # "watch" THEN w
  ELSE IF rev = 1 THEN writeSpriteToFile(w, <<p.path>>, w.sprite)
  ELSE IF fileName # NoFileName THEN writeSpriteToFile(w, fileName, w.sprite)
  ELSE w

\* generateSvgSprite returns: the new sprite becomes current, and the callback
\* that called it runs on.
Publish(w, k) ==
  LET p == w.passes[k]
      s == NewSprite(p.kids)
  IN WriteAfterRebuild([w EXCEPT
        !.sprite = s,
        !.passes = RemoveAt(@, k),
        !.phase = IF p.kind = "config" THEN "up" ELSE @,
        !.chg = IF w.quiet THEN Fresh ELSE Stale,
        !.last = [kind |-> p.kind, ok |-> TRUE, files |-> p.files,
                  errors |-> ErrorsOf(p), warnings |-> WarningsOf(p),
                  notified |-> NotifiedBy(p, w.mod),
                  order |-> FilesOf(p.kids),
                  pre |-> [quiet |-> w.quiet, chg |-> w.chg, defined |-> w.sprite.defined],
                  docSame |-> ContentOf(s) = ContentOf(w.sprite),
                  hashSame |-> s.hash = w.sprite.hash]], p)

\* A faulty variant of Throw: the document built so far becomes the current
\* sprite although the call rejects.
Throw_Publishes(w, k) ==
  LET p == w.passes[k]
  IN [w EXCEPT
        !.sprite = NewSprite(p.kids),
        !.passes = RemoveAt(@, k),
        !.phase = IF p.kind = "config" /\ @ = "boot" THEN "failed" ELSE @,
        !.last = [kind |-> p.kind, ok |-> FALSE, files |-> p.files,
                  errors |-> ErrorsOf(p), warnings |-> {},
                  notified |-> <<>>, order |-> <<>>,
                  pre |-> [quiet |-> w.quiet, chg |-> w.chg, defined |-> w.sprite.defined],
                  docSame |-> TRUE, hashSame |-> TRUE]]

\* generateSvgSprite rejects: the handlers log it, configResolved lets it escape.
Throw(w, k) ==
  LET p == w.passes[k]
  IN [w EXCEPT
        !.passes = RemoveAt(@, k),
        !.phase = IF p.kind = "config" /\ @ = "boot" THEN "failed" ELSE @,
        !.last = [kind |-> p.kind, ok |-> FALSE, files |-> p.files,
                  errors |-> ErrorsOf(p), warnings |-> {},
                  notified |-> <<>>, order |-> <<>>,
                  pre |-> [quiet |-> w.quiet, chg |-> w.chg, defined |-> w.sprite.defined],
                  docSame |-> TRUE, hashSame |-> TRUE]]

\* fs.readdirSync(dir) throws in findSvgFiles, an include directory being gone or
\* unreadable: generateSvgSprite rejects before it has read or appended anything.
DiscoveryThrows(w, kind) ==
  LET p == [kind |-> kind, path |-> w.path, cur |-> TRUE, files |-> <<>>,
            tasks |-> <<>>, kids |-> <<>>]
  IN Throw([w EXCEPT !.passes = Append(@, p)], Len(w.passes) + 1)

\* A faulty variant of FinalLoop: the node of a file whose callback returned on
\* a cache hit is not appended again.
RECURSIVE FinalLoop_MissesOnly(_, _, _)
FinalLoop_MissesOnly(w, k, i) ==
  LET files == w.passes[k].files
  IN IF i > Len(files) THEN [w |-> w, ok |-> TRUE]
     ELSE IF w.cache[files[i]] = NoSym THEN [w |-> w, ok |-> FALSE]
     ELSE IF w.passes[k].tasks[i] = "hit" THEN FinalLoop_MissesOnly(w, k, i + 1)
     ELSE FinalLoop_MissesOnly(AppendChild(w, k, files[i]), k, i + 1)

\* Revision 1, lines 196-198: for (const file of files) sprite.appendChild(svgCache.get(file)!)
\* appendChild(undefined) throws a TypeError.
RECURSIVE FinalLoop(_, _, _)
FinalLoop(w, k, i) ==
  LET files == w.passes[k].files
  IN IF i > Len(files) THEN [w |-> w, ok |-> TRUE]
     ELSE IF w.cache[files[i]] = NoSym THEN [w |-> w, ok |-> FALSE]
     ELSE FinalLoop(AppendChild(w, k, files[i]), k, i + 1)

\* The code after await Promise.all(...).
Finish(w, k) ==
  IF rev = 1
  THEN LET r == FinalLoop(w, k, 1)
       IN IF r.ok THEN Publish(r.w, k) ELSE Throw(r.w, k)
  ELSE Publish(w, k)

\* Promise.all resolves once every per-file callback has settled.
Settle(w, k) ==
  IF \A i \in 1..Len(w.passes[k].tasks) : TaskEnded(w.passes[k].tasks[i])
  THEN Finish(w, k) ELSE w

\* Revision 2, line 548 on a cache hit: the callback has no await before it, so
\* the cached node is appended while files.map is still running.
RECURSIVE AppendHits(_, _, _)
AppendHits(w, k, i) ==
  LET p == w.passes[k]
  IN IF i > Len(p.files) THEN w
     ELSE IF p.tasks[i] = "hit" THEN AppendHits(AppendChild(w, k, p.files[i]), k, i + 1)
     ELSE AppendHits(w, k, i + 1)

\* generateSvgSprite up to its await: Discovery, then one callback per file,
\* which returns at once on a cache hit and otherwise issues the read.
Generate(w, kind, disk) ==
  LET files == Discover(disk)
      p == [kind |-> kind, path |-> w.path, cur |-> TRUE, files |-> files,
            tasks |-> StartTasks(files, w.cache),
            kids |-> <<>>]
      w1 == [w EXCEPT !.passes = Append(@, p)]
      k == Len(w1.passes)
      w2 == IF rev = 2 THEN AppendHits(w1, k, 1) ELSE w1
  IN Settle(w2, k)

\* The continuation of one per-file callback after its read.
Resume(w, k, i, data) ==
  LET p == w.passes[k]
      file == p.files[i]
  IN IF CompileOk(data)
     THEN LET w1 == CacheSet(w, file, Compile(file, data))
              w2 == IF rev = 2 THEN AppendChild(w1, k, file) ELSE w1
          IN Settle([w2 EXCEPT !.passes[k].tasks[i] = "ok"], k)
     ELSE Settle([w EXCEPT !.passes[k].tasks[i] = "err"], k)

Commit(w) ==
  /\ out' = w.out
  /\ svgCache' = w.cache
  /\ passes' = w.passes
  /\ svgSprite' = w.sprite
  /\ last' = w.last
  /\ phase' = w.phase
  /\ quiet' = w.quiet
  /\ chg' = w.chg
  /\ artifacts' = w.artifacts

----------------------------------------------------------------------------
(* Initial state: the plugin function has returned, no hook has run yet. *)

\* The icon directories as the plugin may find them at start-up.
Disk(star, check, close) ==
  ("regular/star.svg" :> star) @@ ("solid/check.svg" :> check) @@ ("solid/close.svg" :> close)

InitDisks == {Disk(Absent, Absent, Absent), Disk(Absent, "A", "A"),
              Disk("A", "A", Absent), Disk(Absent, "A", "X")}

\* A template the plugin function refuses.
NamelessSymbolId == <<"[dir]", "-", "icon">>

\* The fileName option of the README.
DefaultFileName == <<"sprite-", "[hash]", ".svg">>

\* The plugin options and Vite commands explored.
Deployments ==
  {[rev |-> r, mode |-> m, inject |-> IF m = "serve" THEN "body-first" ELSE "body-last",
    symbolId |-> DEFAULT_SYMBOL_ID, fileName |-> DefaultFileName] :
     r \in {1, 2}, m \in {"serve", "watch"}}
  \cup
  {[rev |-> r, mode |-> "serve", inject |-> "body-first", symbolId |-> NamelessSymbolId,
    fileName |-> DefaultFileName] : r \in {1, 2}}

\* The contents the watched files take in the events explored.
EventContents(file) ==
  IF file = "solid/check.svg" THEN {"A", "Ai", "B", Absent}
  ELSE IF file = "solid/close.svg" THEN {"A", "X", Absent}
  ELSE IF file = "solid/notes.md" THEN {"X"}
  ELSE {}

NoJob == [file |-> "", content |-> Absent, done |-> FALSE, symbol |-> NoSym]

\* The state the plugin function returns in, for one of the given option sets
\* and one of the given icon directories.
InitWith(deployments, disks) ==
  /\ \E d \in deployments :
        /\ rev = d.rev /\ mode = d.mode /\ inject = d.inject
        /\ symbolId = d.symbolId /\ fileName = d.fileName
  /\ fs \in disks
  /\ svgCache = EmptyCache
  /\ passes = <<>>
  /\ svgSprite = [defined |-> FALSE, content |-> NoDoc, hash |-> NoHash,
                  root |-> FALSE, kids |-> <<>>]
  /\ debounceTimer = FALSE
  /\ phase = IF Includes(symbolId, "[name]") THEN "boot" ELSE "rejected"
  /\ out = NoOut
  /\ last = NoLast
  /\ nEvents = 0
  /\ nConfig = 0
  /\ quiet = TRUE
  /\ chg = Stale
  /\ hasGeneratedSprite = FALSE
  /\ artifacts = <<>>
  /\ job = NoJob

Init == InitWith(Deployments, InitDisks)

----------------------------------------------------------------------------
(* Hooks and callbacks *)

\* configResolved: await generateSvgSprite(), on the cache as it is.
ConfigResolved ==
  /\ nConfig < MaxConfigRuns
  /\ \/ phase = "boot" /\ nConfig = 0
     \/ phase = "up"
  /\ Len(passes) < MaxInFlight
  /\ nConfig' = nConfig + 1
  /\ Commit(Generate(World, "config", fs))
  /\ hasGeneratedSprite' = FALSE
  /\ UNCHANGED <<rev, mode, inject, symbolId, fileName, job, fs, debounceTimer, nEvents>>

\* What a watcher event reports: an add, change or unlink of a watched file, or a
\* change event that leaves the content as it was (a touch).
IsEvent(file, c) ==
  /\ c \in EventContents(file)
  /\ file \in AllFiles => ~(c = Absent /\ fs[file] = Absent)

\* The icon files on disk once the event has happened.
FsAfter(file, c) == IF file \in AllFiles THEN [fs EXCEPT ![file] = c] ELSE fs

NoteChange(w, file, c) ==
  IF file \notin AllFiles \/ c = fs[file] THEN w
  ELSE [w EXCEPT !.quiet = FALSE,
                 !.chg = IF @ = Fresh /\ fs[file] # Absent /\ c # Absent
                         THEN IF ~CompileOk(c) THEN "broken"
                              ELSE IF CompileOk(fs[file])
                                      /\ Compile(file, c) = Compile(file, fs[file])
                                   THEN "same" ELSE "differs"
                         ELSE Stale]

\* The watcher callback returns at its first test.
Ignore(w) == [w EXCEPT !.out.event = "ignored"]

\* server.watcher.on('all', ...): for a path ending in .svg, restart the timer.
DevWatcherEvent(file, c) ==
  /\ mode = "serve"
  /\ phase = "up"
  /\ IsEvent(file, c)
  /\ file \in AllFiles => nEvents < MaxEvents
  /\ fs' = FsAfter(file, c)
  /\ nEvents' = IF file \in AllFiles THEN nEvents + 1 ELSE nEvents
  /\ debounceTimer' = IF EndsWithSvg(file) THEN TRUE ELSE debounceTimer
  /\ Commit(IF EndsWithSvg(file) THEN NoteChange(World, file, c) ELSE Ignore(World))
  /\ UNCHANGED <<rev, mode, inject, symbolId, fileName, job, hasGeneratedSprite, nConfig>>

\* The timer expires: handleDevChange.
DebounceExpire ==
  /\ debounceTimer
  /\ Len(passes) < MaxInFlight
  /\ debounceTimer' = FALSE
  /\ \E mod \in BOOLEAN : Commit(Generate(CacheClear(WithModule(World, mod)), "dev", fs))
  /\ UNCHANGED <<rev, mode, inject, symbolId, fileName, job, hasGeneratedSprite, fs, nEvents, nConfig>>

\* The createWatcher callback of build watch mode: it returns at once unless the
\* path ends in .svg.
BuildWatcherEvent(file, c) ==
  /\ mode = "watch"
  /\ phase = "up"
  /\ IsEvent(file, c)
  /\ file \in AllFiles => nEvents < MaxEvents
  /\ EndsWithSvg(file) => Len(passes) < MaxInFlight
  /\ fs' = FsAfter(file, c)
  /\ nEvents' = IF file \in AllFiles THEN nEvents + 1 ELSE nEvents
  /\ Commit(IF EndsWithSvg(file)
            THEN Generate(CacheClear(NoteChange(WithPath(World, file), file, c)), "watch",
                          FsAfter(file, c))
            ELSE Ignore(World))
  /\ UNCHANGED <<rev, mode, inject, symbolId, fileName, job, hasGeneratedSprite, debounceTimer, nConfig>>

\* Task i is the only one the pass still awaits: the callback that resumes it
\* runs on to the end of the pass, where the module graph is consulted.
LastTask(p, i) == \A j \in 1..Len(p.tasks) : j # i => p.tasks[j] # "wait"

\* The awaited fs.promises.readFile of task i of pass k settles, with the content
\* the file has by then (a rejection when it is gone), and the callback runs on.
ResumeTask(k, i) ==
  /\ passes[k].tasks[i] = "wait"
  /\ \E mod \in (IF passes[k].kind = "dev" /\ LastTask(passes[k], i)
                  THEN BOOLEAN ELSE {FALSE}) :
        Commit(Resume(WithModule(World, mod), k, i, fs[passes[k].files[i]]))
  /\ UNCHANGED <<rev, mode, inject, symbolId, fileName, job, hasGeneratedSprite, fs, debounceTimer, nEvents, nConfig>>

\* generateBundle: the artifact is written once per configResolved.
GenerateBundle ==
  /\ mode = "watch"
  /\ phase = "up"
  /\ hasGeneratedSprite' = (hasGeneratedSprite \/ fileName # NoFileName)
  /\ Commit(IF fileName # NoFileName /\ ~hasGeneratedSprite
            THEN writeSpriteToFile(World, fileName, svgSprite) ELSE World)
  /\ UNCHANGED <<rev, mode, inject, symbolId, fileName, job, fs, debounceTimer,
                 nEvents, nConfig>>

\* load(RESOLVED_VIRTUAL_MODULE_ID)
Load ==
  /\ phase = "up"
  /\ svgSprite.defined
  /\ out' = [reader |-> "load", status |-> "ok", doc |-> ContentOf(svgSprite),
             hash |-> svgSprite.hash, event |-> "none", write |-> <<>>, at |-> ""]
  /\ last' = NoLast
  /\ UNCHANGED <<rev, mode, inject, symbolId, fileName, job, fs, svgCache, passes, svgSprite,
                 debounceTimer, phase, nEvents, nConfig, quiet, chg,
                 hasGeneratedSprite, artifacts>>

\* transformIndexHtml(html): prepend / appendChild of querySelector('svg') of the
\* sprite document, which moves the element into the page.  Once it is moved the
\* query gives null: prepend(null) inserts the text "null", appendChild(null) throws.
TransformIndexHtml ==
  /\ phase = "up"
  /\ svgSprite.defined
  /\ IF svgSprite.root
     THEN /\ out' = [reader |-> "html", status |-> "inserted",
                     doc |-> Serialize(TRUE, svgSprite.kids), hash |-> NoHash,
                     event |-> "none", write |-> <<>>,
                     at |-> IF inject = "body-first" THEN "first" ELSE "last"]
          /\ svgSprite' = [svgSprite EXCEPT !.root = FALSE]
     ELSE /\ out' = [reader |-> "html",
                     status |-> IF inject = "body-first" THEN "null-text" ELSE "threw",
                     doc |-> NoDoc, hash |-> NoHash, event |-> "none", write |-> <<>>,
                     at |-> IF inject = "body-first" THEN "first" ELSE ""]
          /\ svgSprite' = svgSprite
  /\ last' = NoLast
  /\ UNCHANGED <<rev, mode, inject, symbolId, fileName, job, fs, svgCache, passes,
                 debounceTimer, phase, nEvents, nConfig, quiet, chg,
                 hasGeneratedSprite, artifacts>>

Next ==
  \/ ConfigResolved
  \/ \E file \in AllFiles, c \in Contents \cup {Absent} : DevWatcherEvent(file, c)
  \/ DebounceExpire
  \/ \E file \in AllFiles, c \in Contents \cup {Absent} : BuildWatcherEvent(file, c)
  \/ \E k \in 1..Len(passes) : \E i \in 1..Len(passes[k].tasks) : ResumeTask(k, i)
  \/ Load
  \/ TransformIndexHtml

Spec == Init /\ [][Next]_vars

----------------------------------------------------------------------------
(* The symbol compiler alone: the body of the per-file callback, lines 177-188, *)
(* applied to one file under one accepted template.                           *)

\* The symbolId templates explored.
Templates ==
  {DEFAULT_SYMBOL_ID, <<"[name]">>, <<"icon-", "[name]">>, <<"[name]", "-", "[name]">>,
   <<"[dir]", "/", "[dir]", "-", "[name]">>, NamelessSymbolId}

InitCompile ==
  /\ rev = 1 /\ mode = "serve" /\ inject = "body-first" /\ fileName = DefaultFileName
  /\ symbolId \in {t \in Templates : Includes(t, "[name]")}
  /\ fs = Disk(Absent, Absent, Absent)
  /\ svgCache = EmptyCache
  /\ passes = <<>>
  /\ svgSprite = [defined |-> FALSE, content |-> NoDoc, hash |-> NoHash,
                  root |-> FALSE, kids |-> <<>>]
  /\ debounceTimer = FALSE
  /\ phase = "boot"
  /\ out = NoOut
  /\ last = NoLast
  /\ nEvents = 0
  /\ nConfig = 0
  /\ quiet = TRUE
  /\ chg = Stale
  /\ hasGeneratedSprite = FALSE
  /\ artifacts = <<>>
  /\ \E f \in AllFiles, c \in CompileContents : job = [NoJob EXCEPT !.file = f, !.content = c]

\* optimize, JSDOM.fragment, createElement('symbol'), the attribute loop, the id.
CompileFile ==
  /\ ~job.done
  /\ CompileOk(job.content)
  /\ job' = [job EXCEPT !.symbol = Compile(job.file, job.content), !.done = TRUE]
  /\ UNCHANGED <<rev, mode, inject, symbolId, fileName, fs, svgCache, passes, svgSprite,
                 debounceTimer, phase, out, last, nEvents, nConfig, quiet, chg,
                 hasGeneratedSprite, artifacts>>

NextCompile == CompileFile

SpecCompile == InitCompile /\ [][NextCompile]_vars

----------------------------------------------------------------------------
(* The build in watch mode with its bundle hook: revision 1, vite build --watch. *)

\* With and without the fileName option.
BuildDeployments ==
  {[rev |-> 1, mode |-> "watch", inject |-> "body-last", symbolId |-> DEFAULT_SYMBOL_ID,
    fileName |-> f] : f \in {DefaultFileName, NoFileName}}

InitArtifact == InitWith(BuildDeployments, {Disk(Absent, "A", "A")})

NextArtifact ==
  \/ ConfigResolved
  \/ \E file \in AllFiles, c \in Contents \cup {Absent} : BuildWatcherEvent(file, c)
  \/ \E k \in 1..Len(passes) : \E i \in 1..Len(passes[k].tasks) : ResumeTask(k, i)
  \/ GenerateBundle

SpecArtifact == InitArtifact /\ [][NextArtifact]_vars

\* The plugin of revision 1 alone.
InitRev1 == Init /\ rev = 1

SpecRev1 == InitRev1 /\ [][Next]_vars

\* handleDevChange when Discovery throws.
DevChangeFails ==
  /\ debounceTimer
  /\ debounceTimer' = FALSE
  /\ Commit(DiscoveryThrows(CacheClear(World), "dev"))
  /\ UNCHANGED <<rev, mode, inject, symbolId, fileName, job, hasGeneratedSprite, fs, nEvents, nConfig>>

\* The createWatcher callback for an icon file when Discovery throws.
WatchChangeFails(file, c) ==
  /\ mode = "watch"
  /\ phase = "up"
  /\ IsEvent(file, c)
  /\ nEvents < MaxEvents
  /\ fs' = FsAfter(file, c)
  /\ nEvents' = nEvents + 1
  /\ Commit(DiscoveryThrows(CacheClear(NoteChange(WithPath(World, file), file, c)), "watch"))
  /\ UNCHANGED <<rev, mode, inject, symbolId, fileName, job, hasGeneratedSprite, debounceTimer, nConfig>>

\* Revision 1 with include directories that may be unreadable when a change
\* handler lists them.
NextFailure ==
  \/ ConfigResolved
  \/ \E file \in AllFiles, c \in Contents \cup {Absent} : DevWatcherEvent(file, c)
  \/ DebounceExpire
  \/ DevChangeFails
  \/ \E file \in AllFiles, c \in Contents \cup {Absent} : BuildWatcherEvent(file, c)
  \/ \E file \in AllFiles, c \in Contents \cup {Absent} : WatchChangeFails(file, c)
  \/ \E k \in 1..Len(passes) : \E i \in 1..Len(passes[k].tasks) : ResumeTask(k, i)
  \/ Load
  \/ TransformIndexHtml

SpecFailure == InitRev1 /\ [][NextFailure]_vars

\* Revision 1 with a watcher that also reports the other files of the icon
\* directories.
NextWatcher ==
  \/ ConfigResolved
  \/ \E file \in WatchedPaths, c \in Contents \cup {Absent} : DevWatcherEvent(file, c)
  \/ DebounceExpire
  \/ \E file \in WatchedPaths, c \in Contents \cup {Absent} : BuildWatcherEvent(file, c)
  \/ \E k \in 1..Len(passes) : \E i \in 1..Len(passes[k].tasks) : ResumeTask(k, i)
  \/ Load
  \/ TransformIndexHtml

SpecWatcher == InitRev1 /\ [][NextWatcher]_vars

----------------------------------------------------------------------------
(* Claims *)

\* No hook or callback is running a pipeline and no timer is pending.
Quiescent == phase = "up" /\ passes = <<>> /\ ~debounceTimer

AllCompile(disk) == \A f \in AllFiles : disk[f] # Absent => CompileOk(disk[f])

\* The sprite assembled from an empty cache out of the files on disk.
RECURSIVE Compiled(_, _)
Compiled(files, disk) ==
  IF files = <<>> THEN <<>>
  ELSE <<[file |-> Head(files), sym |-> Compile(Head(files), disk[Head(files)]),
          live |-> TRUE]>> \o Compiled(Tail(files), disk)

Reference(disk) == Serialize(TRUE, Compiled(Discover(disk), disk))

\* C1 (as claimed): once no event is outstanding and every rebuild pass has ended,
\* the current sprite, content and hash, is the one assembled from an empty cache
\* out of exactly the icon files that exist, with their current contents.  Stated
\* for disks on which every file compiles.
C1_EventualConsistency ==
  (Quiescent /\ AllCompile(fs)) =>
     /\ svgSprite.content = Reference(fs)
     /\ svgSprite.hash = getHash(Reference(fs))

Range(s) == {s[i] : i \in 1..Len(s)}

\* C2 (as claimed): whatever the completion order of the per-file callbacks, the
\* symbols of a published sprite follow the Discovery order of their files.
C2_DiscoveryOrder ==
  last.ok => last.order = SelectSeq(last.files, LAMBDA f : f \in Range(last.order))

\* C3 (as claimed): at most one rebuild pass of a change handler is in progress.
C3_SingleFlight ==
  Cardinality({k \in 1..Len(passes) : passes[k].kind \in {"dev", "watch"}}) <= 1

\* C4 (as claimed): a rebuild started for the changed path removes that path's
\* cache entry only; the entry of every other path is left as it was.
C4_SelectiveInvalidation ==
  [][\A file \in AllFiles, c \in Contents \cup {Absent} :
       BuildWatcherEvent(file, c) =>
         \A f \in AllFiles \ {file} : svgCache'[f] = svgCache[f]]_vars

\* C5 (as claimed): a pass in which some files fail to read or compile still
\* publishes, and the sprite holds the symbols of all and only the other
\* discovered files, in Discovery order.
C5_FailuresSkipped ==
  (last.kind # "none" /\ last.errors # {}) =>
     /\ last.ok
     /\ last.order = SelectSeq(last.files, LAMBDA f : f \notin last.errors)

\* C6 (as claimed): a pass that produces no symbol, because no file was found or
\* because every file failed, publishes the empty sprite document and warns.
C6_EmptySprite ==
  (last.kind # "none" /\ \A f \in Range(last.files) : f \in last.errors) =>
     /\ last.ok
     /\ svgSprite.content = Serialize(TRUE, <<>>)
     /\ "empty-sprite" \in last.warnings

\* C7 (as claimed): what a reader obtains is the complete sprite of the pass
\* that published it, and the hash it obtains is the digest of that content.
C7_ReadersSeeWholeSprite ==
  out.reader # "none" =>
     /\ out.doc = svgSprite.content
     /\ out.reader = "load" => out.hash = getHash(out.doc)

\* The pass that just ended ran, like the one that published the sprite before
\* it, on the files as they are now.
RanAgain ==
  last.ok /\ last.pre.defined /\ last.pre.quiet /\ last.pre.chg = Fresh

\* C8: running the pipeline again with no icon file added, removed or changed,
\* from an empty cache or from the cache the passes before left, publishes a
\* sprite with the same serialized content and the same hash.
C8_Idempotent == RanAgain => (last.docSame /\ last.hashSame)

\* C8 witness: configResolved ran again on a warm cache, two icons in the sprite.
C8_Witness ==
  /\ RanAgain
  /\ last.kind = "config"
  /\ Len(svgSprite.content.symbols) = 2

\* The pass that just ended reconciled one changed file: it is a change
\* handler's pass, started after the change with no older pass in flight.
Reconciled(how) ==
  last.ok /\ last.kind \in {"dev", "watch"} /\ last.pre.quiet /\ last.pre.chg = how

C10_EventOnlyRestartsTimer ==
  [][\A file \in AllFiles, c \in Contents \cup {Absent} :
       (DevWatcherEvent(file, c) \/ BuildWatcherEvent(file, c)) =>
          (debounceTimer' /\ passes' = passes /\ svgCache' = svgCache)]_vars

\* C11: a watcher event for a path that does not end in .svg restarts no timer,
\* starts no pass and leaves the cache and the current sprite as they were,
\* whether the reconciler is idle, debouncing or rebuilding.
C11_OtherPathsIgnored ==
  [][\A file \in WatchedPaths, c \in Contents \cup {Absent} :
       (PathParse(file).ext # ".svg"
          /\ (DevWatcherEvent(file, c) \/ BuildWatcherEvent(file, c))) =>
       UNCHANGED <<debounceTimer, passes, svgCache, svgSprite>>]_vars

\* C11 witness: such an event was ignored while a timer was pending or a pass
\* was awaiting its reads.
C11_Witness == out.event = "ignored" /\ (debounceTimer \/ passes # <<>>)

\* C12 (as claimed): a rebuild pass of the dev server that completes is followed
\* by one notification, the invalidation of the virtual module and the refresh
\* signal, issued in the same callback after the new sprite became current; a
\* pass that fails issues none.
C12_NotifiedOncePerPass ==
  last.kind = "dev" =>
     last.notified = (IF last.ok THEN <<"invalidateModule", "full-reload">> ELSE <<>>)

\* C13: a configuration whose symbolId template does not contain [name] is
\* rejected when the plugin is configured: Discovery never runs, no file is read,
\* no cache entry and no sprite is ever produced.
C13_NamelessTemplateRejected ==
  "[name]" \notin Range(symbolId) =>
     /\ phase = "rejected"
     /\ passes = <<>> /\ last.kind = "none"
     /\ svgCache = EmptyCache
     /\ ~svgSprite.defined

\* C13 witness: the plugin was configured with such a template and refused it.
C13_Witness == "[name]" \notin Range(symbolId) /\ phase = "rejected"

\* The attribute names of a record with an optional id and further attributes.
AttrNames(e) ==
  {e.attrs[i][1] : i \in 1..Len(e.attrs)} \cup (IF e.id = <<>> THEN {} ELSE {"id"})

AttrValue(e, name) ==
  LET hits == SelectSeq(e.attrs, LAMBDA a : a[1] = name)
  IN IF hits = <<>> THEN <<>> ELSE <<hits[1][2]>>

\* C14 (as claimed): the compiled symbol has no width and no height attribute,
\* also when the source root declares them, and carries every other attribute
\* of the source root.
C14_NoWidthHeight ==
  job.done =>
     /\ "width" \notin AttrNames(job.symbol)
     /\ "height" \notin AttrNames(job.symbol)
     /\ \A n \in AttrNames(Markup(job.content)) \ {"width", "height", "id"} :
           AttrValue(job.symbol, n) = AttrValue(Markup(job.content), n)

\* C15 (as claimed): the compiled symbol has the viewBox of the source root, and
\* "0 0 24 24" when the source root declares none.
C15_ViewBoxDefault ==
  job.done =>
     AttrValue(job.symbol, "viewBox") =
       (IF AttrValue(Markup(job.content), "viewBox") = <<>>
        THEN <<"0 0 24 24">> ELSE AttrValue(Markup(job.content), "viewBox"))

RECURSIVE ReplaceAll(_, _, _)
ReplaceAll(s, ph, val) ==
  IF s = <<>> THEN <<>>
  ELSE <<IF Head(s) = ph THEN val ELSE Head(s)>> \o ReplaceAll(Tail(s), ph, val)

\* C16 (as claimed): the id of the compiled symbol is the template with [dir]
\* replaced by the base name of the file's directory and [name] by the file name
\* without extension, whatever id the source root declares, and no placeholder
\* is left in it.
C16_SymbolIdFromTemplate ==
  job.done =>
     /\ job.symbol.id = ReplaceAll(ReplaceAll(symbolId, "[dir]", PathParse(job.file).dir),
                                   "[name]", PathParse(job.file).name)
     /\ "[dir]" \notin Range(job.symbol.id)
     /\ "[name]" \notin Range(job.symbol.id)

\* C17 (as claimed): every write of the artifact, at bundle generation and after
\* a watch-mode rebuild, goes to the path made from the fileName option with
\* [hash] replaced by the hash of the sprite current at the time, and there is
\* no write when fileName is not configured.
C17_ArtifactPathFromFileName ==
  out.write # <<>> =>
     /\ fileName # NoFileName
     /\ out.write[1].path = [name |-> fileName, hash |-> svgSprite.hash]

\* C18: when the file at the resolved path exists with the very content to be
\* written, writeSpriteToFile leaves the directory as it is and calls no
\* fs.writeFileSync: the same sprite written twice is written to disk once.
C18_WriteIdempotent ==
  [][(out'.write # <<>>
        /\ ExistsWith(artifacts, out'.write[1].path, ContentOf(svgSprite'))) =>
     (artifacts' = artifacts /\ ~out'.write[1].written)]_vars

\* C18 witness: generateBundle ran again for an unchanged sprite and wrote nothing.
C18_Witness ==
  /\ out.write # <<>> /\ ~out.write[1].written
  /\ hasGeneratedSprite
  /\ ExistsWith(artifacts, out.write[1].path, ContentOf(svgSprite))

\* C19 (as claimed): every call of transformIndexHtml, the second and later ones
\* without a rebuild in between included, returns the page with the root element
\* of the current sprite, all its symbols in it, inserted once: as first child of
\* the body for body-first, as last child for body-last.
C19_InjectedOnEveryCall ==
  out.reader = "html" =>
     /\ out.status = "inserted"
     /\ out.at = (IF inject = "body-first" THEN "first" ELSE "last")
     /\ rev = 1 => out.doc = svgSprite.content

\* The passes of the current cache generation that are reading or compiling f.
Compiling(f) ==
  {k \in 1..Len(passes) :
     /\ passes[k].cur
     /\ \E i \in 1..Len(passes[k].files) :
          passes[k].files[i] = f /\ passes[k].tasks[i] = "wait"}

\* C20 (as claimed): within one cache generation, that is between two clears of
\* the cache, at most one read-and-compile of a path is under way: a second
\* request for the path joins the first and compiles nothing.
C20_CompileAtMostOnce == \A f \in AllFiles : Cardinality(Compiling(f)) <= 1

\* C21 (as claimed): the cache holds an entry for a path only if the path was
\* compiled after the most recent clear of the cache; a per-file callback of a
\* pass that started before a clear, whose read ends after it, leaves the cache
\* as it is.
C21_NoStaleCompileCached ==
  [][\A k \in 1..Len(passes) : \A i \in 1..Len(passes[k].tasks) :
       (~passes[k].cur /\ ResumeTask(k, i)) => svgCache' = svgCache]_vars

\* C22: once a sprite has been published there is always a current sprite, and
\* a rebuild pass that fails, in Discovery or in assembly, leaves the current
\* sprite with the content and the hash it had; the failure of a pass run by a
\* change handler stays inside the handler.
C22_FailedPassKeepsSprite ==
  [][/\ svgSprite.defined => svgSprite'.defined
     /\ (last'.kind # "none" /\ ~last'.ok) =>
          /\ svgSprite'.defined = svgSprite.defined
          /\ svgSprite'.content = svgSprite.content
          /\ svgSprite'.hash = svgSprite.hash
          /\ last'.kind \in {"dev", "watch"} => phase' = phase]_vars

\* C22 witness: a pass run by a change handler has just failed in assembly, a
\* file having failed to compile, while a sprite with symbols was current.
C22_Witness ==
  /\ last.kind \in {"dev", "watch"}
  /\ ~last.ok
  /\ last.errors # {}
  /\ svgSprite.defined
  /\ svgSprite.content.symbols # <<>>

\* C23 (as claimed): a call of load, of the dev responder or of transformIndexHtml
\* leaves the current sprite as it is: what load and the responder send after
\* the call, content and hash, is what they would have sent before it.
C23_ReadersReadOnly ==
  [][(Load \/ TransformIndexHtml) =>
       /\ ContentOf(svgSprite') = ContentOf(svgSprite)
       /\ svgSprite'.hash = svgSprite.hash]_vars

====
